---- MODULE Spec2Model ----
(***************************************************************************)
(* s3py: resumable multipart upload.                                       *)
(*                                                                         *)
(* Server side  (src/src/s3py/api/v1/files.py, src/src/s3py/models.py):    *)
(*   the tables `upload` and `part`, and the request handlers get_uploads, *)
(*   get_last_part, delete_upload, start_upload, upload_part and           *)
(*   complete_upload.                                                      *)
(* Client side  (src/src/scripts/multipart_upload.py):                     *)
(*   ChunkedBinaryReader.read_chunks, get_existing_or_start_upload,        *)
(*   upload_chunks (an asyncio.TaskGroup), register_uploaded_parts,        *)
(*   upload_simple, upload_batched and main.                               *)
(* Backing store (S3 / MinIO behind s3_client): multipart transfers with   *)
(*   create / put part / list_parts / complete / abort.                    *)
(*                                                                         *)
(* Sizes are scaled: one byte of the model stands for a block of the file. *)
(***************************************************************************)
EXTENDS Integers, Sequences, FiniteSets, TLC

(***************************************************************************)
(* Bounds of the model.                                                    *)
(***************************************************************************)
\* rows of the table `part` that requests made directly to the API may fill
MaxRows == 2
\* part numbers a request made directly to the API may carry
MaxPartNumber == 2
\* bytes of the file a client uploads
MaxFileSize == 5
\* runs of the upload script per client
MaxRuns == 3
\* chunk sizes, offsets and batch sizes read_chunks is called with
MaxChunkSize == 3
MaxOffset == 3
MaxBatchSize == 3

(***************************************************************************)
(* Program constants (scaled).                                             *)
(***************************************************************************)
\* multipart_upload.py:33  CHUNK_SIZE = 50 * 1024 * 1024
CHUNK_SIZE == 2
\* multipart_upload.py:34  MAX_CONCURRENT_UPLOADS = 10
MAX_CONCURRENT_UPLOADS == 2
\* files.py:357  min_size = 5 * 1024 * 1024
min_size == 2

None == "None"

INITIATED == "initiated"
IN_PROGRESS == "in-progress"
COMPLETED == "completed"
UploadStatus == {COMPLETED, INITIATED, IN_PROGRESS}

\* the client's fixed user_id (multipart_upload.py:93, 528)
MinioUser == "minio_user"
\* the key of the file the client uploads
ClientKey == "file.bin"

\* HTTP status codes of the handlers
HTTP_200_OK == 200
HTTP_201_CREATED == 201
HTTP_404_NOT_FOUND == 404

VARIABLES
  uploads,   \* table `upload`: upload_id -> [user_id, key, status]
  parts,     \* table `part`: the rows [upload_id, user_id, key, etag, part_number], in insertion (id) order
  s3,        \* backing store: upload id -> [key, state, parts: part number -> [etag, size]]
  resp,      \* the last response: [op, status, calls (to the store), body]
  cl,        \* the client runs
  tx,        \* an upload_part request the server is in the middle of
  rd         \* a ChunkedBinaryReader and the call of read_chunks on it

vars == <<uploads, parts, s3, resp, cl, tx, rd>>

(***************************************************************************)
(* Helpers on sequences and sets.                                          *)
(***************************************************************************)
Range(s) == {s[i] : i \in DOMAIN s}

Max(S) == CHOOSE x \in S : \A y \in S : y <= x

\* ceil(a / b) for b > 0
Ceil(a, b) == (a + b - 1) \div b

Min2(a, b) == IF a <= b THEN a ELSE b

(***************************************************************************)
(* Backing store.  An upload id is "open" from create_multipart_upload     *)
(* until complete_multipart_upload or abort_multipart_upload.              *)
(***************************************************************************)
\* the integrity tag the store returns for a part's bytes (a digest of them)
ETag(content) == <<"md5", content>>

S3Open(u) == u \in DOMAIN s3 /\ s3[u].state = "open"

\* create_multipart_upload: a fresh upload id
S3NextId == Cardinality(DOMAIN s3) + 1

S3Create(key) ==
  [u \in DOMAIN s3 \cup {S3NextId} |->
     IF u = S3NextId THEN [key |-> key, state |-> "open", parts |-> << >>]
     ELSE s3[u]]

\* a function with one more (or one replaced) entry
Put(f, k, v) == [x \in DOMAIN f \cup {k} |-> IF x = k THEN v ELSE f[x]]

\* PUT of `content` to the presigned URL of (u, part_number)
S3PutPart(u, part_number, content) ==
  [s3 EXCEPT ![u].parts =
     Put(@, part_number, [etag |-> ETag(content), size |-> Len(content)])]

\* complete_multipart_upload accepts a part list that is not empty, strictly
\* ascending, names stored parts with their tags, and whose parts but the
\* last have the minimum size
S3Assembles(u, plist) ==
  /\ S3Open(u)
  /\ Len(plist) > 0
  /\ \A i \in 1..(Len(plist) - 1) : plist[i].PartNumber < plist[i + 1].PartNumber
  /\ \A i \in 1..Len(plist) :
       /\ plist[i].PartNumber \in DOMAIN s3[u].parts
       /\ s3[u].parts[plist[i].PartNumber].etag = plist[i].ETag
       /\ (i < Len(plist) => s3[u].parts[plist[i].PartNumber].size >= min_size)

S3SetState(store, u, st) == [store EXCEPT ![u].state = st]

(***************************************************************************)
(* Server: queries.                                                        *)
(***************************************************************************)
PartsOf(upload_id) == SelectSeq(parts, LAMBDA p : p.upload_id = upload_id)

PartNumbersOf(upload_id) == {p.part_number : p \in Range(PartsOf(upload_id))}

\* files.py:51-52: `stmt.where(...)` builds a new statement and drops it;
\* the statement executed is the one filtered by key alone
StatusFilter(stmt, upload_status) == stmt

\* files.py:37-57
get_uploads(key, upload_status) ==
  StatusFilter({u \in DOMAIN uploads : uploads[u].key = key}, upload_status)

\* variant of get_last_part: the rows are not ordered, any part is returned
get_any_part(upload_id) == Range(PartsOf(upload_id))

\* files.py:122-140: order_by(part_number.desc()).limit(1): the rows with the
\* highest part_number (first() takes one of them, or None when there is none)
get_last_part(upload_id) ==
  {p \in Range(PartsOf(upload_id)) :
     \A q \in Range(PartsOf(upload_id)) : q.part_number <= p.part_number}

(***************************************************************************)
(* Server: handlers, as the response and the tables after the request.     *)
(***************************************************************************)
\* variant of FindUpload: the user_id of the request is not compared
FindUploadOfAnyUser(upload_id, key, user_id) ==
  upload_id \in DOMAIN uploads /\ uploads[upload_id].key = key

\* variant of FindUpload: the row is looked up by its upload_id alone
FindUploadById(upload_id, key, user_id) == upload_id \in DOMAIN uploads

\* files.py:267-275: select(Upload).where(upload_id, key, user_id)
FindUpload(upload_id, key, user_id) ==
  /\ upload_id \in DOMAIN uploads
  /\ uploads[upload_id].key = key
  /\ uploads[upload_id].user_id = user_id

\* files.py:191-210: create_multipart_upload has returned and the commit of
\* the Upload row raises: rollback, and the error is raised again
start_upload_commit_fails(request) ==
  [status  |-> 500,
   body    |-> [detail |-> "commit failed"],
   calls   |-> <<"create_multipart_upload">>,
   uploads |-> uploads,
   parts   |-> parts,
   s3      |-> S3Create(request.filename)]

\* variant of start_upload: the row is stored as in-progress from the start
start_upload_in_progress(request) ==
  [status  |-> HTTP_201_CREATED,
   body    |-> [upload_id |-> S3NextId, key |-> request.filename],
   calls   |-> <<"create_multipart_upload">>,
   uploads |-> Put(uploads, S3NextId,
                   [user_id |-> request.user_id, key |-> request.filename,
                    status |-> IN_PROGRESS]),
   parts   |-> parts,
   s3      |-> S3Create(request.filename)]

\* files.py:178-213
start_upload(request) ==
  [status  |-> HTTP_201_CREATED,
   body    |-> [upload_id |-> S3NextId, key |-> request.filename],
   calls   |-> <<"create_multipart_upload">>,
   uploads |-> Put(uploads, S3NextId,
                   [user_id |-> request.user_id, key |-> request.filename,
                    status |-> INITIATED]),
   parts   |-> parts,
   s3      |-> S3Create(request.filename)]

\* files.py:279-288: the row added for the request
NewPart(request) ==
  [upload_id |-> request.upload_id, user_id |-> request.user_id,
   key |-> request.key, etag |-> request.etag,
   part_number |-> request.part_number]

\* variant of InsertPart: a row of the same upload and part number is
\* overwritten with the new tag
InsertPartReplacing(request) ==
  IF \E i \in 1..Len(parts) : /\ parts[i].upload_id = request.upload_id
                              /\ parts[i].part_number = request.part_number
  THEN [i \in 1..Len(parts) |->
          IF /\ parts[i].upload_id = request.upload_id
             /\ parts[i].part_number = request.part_number
          THEN NewPart(request) ELSE parts[i]]
  ELSE Append(parts, NewPart(request))

\* files.py:287-288: db.add(part); commit
InsertPart(request) == Append(parts, NewPart(request))

\* variant of StatusAfterPart: the status is left as it was loaded
StatusKept(status) == status

\* files.py:291-292: upload.status = "in-progress"; commit
StatusAfterPart(status) == IN_PROGRESS

\* files.py:255-295
upload_part(request) ==
  IF ~FindUpload(request.upload_id, request.key, request.user_id)
  THEN [status |-> HTTP_404_NOT_FOUND, body |-> [detail |-> "not found"], calls |-> << >>,
        uploads |-> uploads, parts |-> parts, s3 |-> s3]
  ELSE [status  |-> HTTP_201_CREATED,
        body    |-> [success |-> TRUE],
        calls   |-> << >>,
        uploads |-> [uploads EXCEPT ![request.upload_id].status =
                                       StatusAfterPart(@)],
        parts   |-> InsertPart(request),
        s3      |-> s3]

\* models.py:35-37: cascade="all, delete-orphan": the parts of a deleted
\* upload are deleted with it
Cascade(upload_id) == SelectSeq(parts, LAMBDA p : p.upload_id # upload_id)

\* files.py:150-168: the upload and, by the cascade of models.py:35-37, its parts
delete_upload(upload_id) ==
  IF upload_id \notin DOMAIN uploads
  THEN [status |-> HTTP_404_NOT_FOUND, body |-> [detail |-> "not found"], calls |-> << >>,
        uploads |-> uploads, parts |-> parts, s3 |-> s3]
  ELSE [status  |-> HTTP_200_OK,
        body    |-> [deleted_upload |->
                       [upload_id |-> upload_id,
                        user_id |-> uploads[upload_id].user_id,
                        key |-> uploads[upload_id].key,
                        status |-> uploads[upload_id].status]],
        calls   |-> << >>,
        uploads |-> [u \in DOMAIN uploads \ {upload_id} |-> uploads[u]],
        parts   |-> Cascade(upload_id),
        s3      |-> s3]

\* files.py:334: sorted(upload.parts, key=lambda x: x.part_number); the sort
\* is stable, rows of one part number keep their insertion order
InsertByPartNumber(srt, p) ==
  LET k == Cardinality({i \in DOMAIN srt : srt[i].part_number <= p.part_number})
  IN SubSeq(srt, 1, k) \o <<p>> \o SubSeq(srt, k + 1, Len(srt))

RECURSIVE sorted(_)
sorted(rows) ==
  IF rows = << >> THEN << >>
  ELSE InsertByPartNumber(sorted(SubSeq(rows, 1, Len(rows) - 1)), rows[Len(rows)])

\* variant of is_last_part: every part is taken for the last one
is_last_part_any(part, sorted_parts) == part \in Range(sorted_parts)

\* files.py:358
is_last_part(part, sorted_parts) ==
  part.part_number = Max({p.part_number : p \in Range(sorted_parts)})

\* variant of PartError: the listing of the store is not consulted for
\* presence, a part the store does not list passes
PartErrorSizeOnly(part, s3_parts, sorted_parts) ==
  IF part.part_number \in DOMAIN s3_parts
     /\ s3_parts[part.part_number].size < min_size
     /\ ~is_last_part(part, sorted_parts) THEN "too small"
  ELSE None

\* files.py:350-364: what the validation of one part raises, or None
PartError(part, s3_parts, sorted_parts) ==
  IF part.part_number \notin DOMAIN s3_parts THEN "not found in S3"
  ELSE IF s3_parts[part.part_number].size < min_size
          /\ ~is_last_part(part, sorted_parts) THEN "too small"
  ELSE None

\* files.py:349: the loop stops at the first part that raises
ValidationError(s3_parts, sorted_parts) ==
  LET bad == {i \in DOMAIN sorted_parts :
                PartError(sorted_parts[i], s3_parts, sorted_parts) # None}
  IN IF bad = {} THEN None
     ELSE PartError(sorted_parts[CHOOSE i \in bad : \A j \in bad : i <= j],
                    s3_parts, sorted_parts)

\* files.py:368-378
Payload(sorted_parts) ==
  [i \in DOMAIN sorted_parts |->
     [ETag |-> sorted_parts[i].etag, PartNumber |-> sorted_parts[i].part_number]]

\* what may go wrong in a collaborator during complete_upload
Faults == {"none", "list_parts", "complete_multipart_upload", "commit"}

\* (fault, abort_fault): which call fails by itself, and whether the abort
\* requested after an error fails too
FaultCases == Faults \X BOOLEAN

\* variant of Raised: a failure of the abort replaces the error
RaisedAbortError(error, abort_fault) ==
  IF error # None /\ abort_fault THEN "abort_multipart_upload failed" ELSE error

\* files.py:392-402: the except branch prints the error of the abort and
\* re-raises the error it caught
Raised(error, abort_fault) == error

\* variant of StatusAfterComplete: the status is stored whether or not the
\* completion went through
StatusMarkedAnyway(status, committed) == COMPLETED

\* files.py:383-384: upload.status = "completed" and its commit, reached
\* only when nothing before has raised; otherwise the row is as it was
StatusAfterComplete(status, committed) ==
  IF committed THEN COMPLETED ELSE status

\* variant of Committed: the status is committed whether or not the store
\* has assembled the object
CommittedUnassembled(assembled, fault) == fault # "commit"

\* files.py:381-384: the commit of the status is reached only when
\* complete_multipart_upload has returned, and may fail by itself
Committed(assembled, fault) == assembled /\ fault # "commit"

\* files.py:305-402.  `fault` is the collaborator call that fails by itself,
\* abort_fault whether abort_multipart_upload fails by itself.
complete_upload(request, fault, abort_fault) ==
  IF ~FindUpload(request.upload_id, request.key, request.user_id)
  THEN [status |-> HTTP_404_NOT_FOUND, body |-> [detail |-> "not found"], calls |-> << >>,
        uploads |-> uploads, parts |-> parts, s3 |-> s3]
  ELSE
    LET u == request.upload_id
        sorted_parts == sorted(PartsOf(u))
        listed == fault # "list_parts" /\ S3Open(u)
        verr == IF listed THEN ValidationError(s3[u].parts, sorted_parts) ELSE None
        asked == listed /\ verr = None
        assembled == /\ asked
                     /\ fault # "complete_multipart_upload"
                     /\ S3Assembles(u, Payload(sorted_parts))
        committed == Committed(assembled, fault)
        error == IF ~listed THEN "list_parts failed"
                 ELSE IF verr # None THEN verr
                 ELSE IF ~assembled THEN "complete_multipart_upload failed"
                 ELSE IF ~committed THEN "commit failed"
                 ELSE None
        s3a == IF assembled THEN S3SetState(s3, u, "completed") ELSE s3
        \* files.py:392-402: the except branch
        s3b == IF error # None /\ ~abort_fault /\ s3a[u].state = "open"
               THEN S3SetState(s3a, u, "aborted") ELSE s3a
    IN [status  |-> IF error = None THEN HTTP_201_CREATED ELSE 500,
        body    |-> IF error = None THEN [location |-> s3[u].key, key |-> s3[u].key]
                    ELSE [detail |-> Raised(error, abort_fault)],
        calls   |-> <<"list_parts">>
                    \o (IF asked THEN <<"complete_multipart_upload">> ELSE << >>)
                    \o (IF error # None THEN <<"abort_multipart_upload">> ELSE << >>),
        uploads |-> [uploads EXCEPT ![u].status = StatusAfterComplete(@, committed)],
        parts   |-> parts,
        s3      |-> s3b]

(***************************************************************************)
(* Client: src/src/scripts/multipart_upload.py.                            *)
(***************************************************************************)
Clients == {"c1"}

\* the file a client uploads: `size` bytes, each byte its own position
File(size) == [i \in 1..size |-> i]

\* variant of FileRead: only whole chunks are read, a shorter rest is dropped
FileReadWhole(file, position, chunk_size) ==
  IF position + chunk_size <= Len(file)
  THEN SubSeq(file, position + 1, position + chunk_size) ELSE << >>

\* multipart_upload.py:79: self.file.read(self.chunk_size) at `position`:
\* up to chunk_size bytes, fewer at the end of the file, none behind it
FileRead(file, position, chunk_size) ==
  SubSeq(file, position + 1, Min2(position + chunk_size, Len(file)))

\* multipart_upload.py:69-83.  batch_size is << >> for None and <<n>> for n.
RECURSIVE ReadLoop(_, _, _, _, _)
ReadLoop(file, chunk_size, position, chunks_read, batch_size) ==
  IF batch_size # << >> /\ ~(chunks_read < batch_size[1]) THEN << >>
  ELSE LET chunk == FileRead(file, position, chunk_size)
       IN IF chunk = << >> THEN << >>
          ELSE <<chunk>> \o ReadLoop(file, chunk_size, position + Len(chunk),
                                     chunks_read + 1, batch_size)

read_chunks(file, chunk_size, offset, batch_size) ==
  ReadLoop(file, chunk_size, offset * chunk_size, 0, batch_size)

\* a response of the store without an ETag header
NoETag == << >>

NoUpload == [upload_id |-> 0, key |-> ""]

\* a client that runs nothing, after `runs` runs
NoRun(runs) ==
  [pc |-> "idle", runs |-> runs, size |-> 0, batched |-> FALSE,
   max_concurrent |-> MAX_CONCURRENT_UPLOADS,
   prev |-> [pc |-> "idle", upload_id |-> 0, part_numbers |-> {}],
   found |-> 0, upload |-> NoUpload, last_part_number |-> 0,
   batch_idx |-> 0, pos |-> 0, tasks |-> << >>, aborting |-> FALSE,
   upload_responses |-> << >>, reg |-> 0, sent |-> {}]

\* multipart_upload.py:444-449: the values --max-concurrent is given
MaxConcurrentArgs == 1..MAX_CONCURRENT_UPLOADS

Active(r) == r.pc \notin {"idle", "done", "failed", "interrupted"}

\* variant of BatchSize: the batched mode leaves batch_size None as well
BatchSizeNone(r) == << >>

\* multipart_upload.py:472-474 (simple: batch_size left None) and 495-503
\* (batched: MAX_CONCURRENT_UPLOADS)
BatchSize(r) == IF r.batched THEN <<MAX_CONCURRENT_UPLOADS>> ELSE << >>

\* multipart_upload.py:271-274: the chunks the reader yields in this invocation
ChunksOf(r) == read_chunks(File(r.size), CHUNK_SIZE, r.batch_idx, BatchSize(r))

\* multipart_upload.py:275-277: a chunk the loop skips
Skipped(part_idx, last_part_number) == part_idx <= last_part_number

\* multipart_upload.py:272-279: from position `from` of the chunks on, the
\* first chunk the loop does not skip; Len + 1 when there is none
NextPos(r, from) ==
  LET todo == {i \in from..Len(ChunksOf(r)) :
                 ~Skipped(r.batch_idx + i, r.last_part_number)}
  IN IF todo = {} THEN Len(ChunksOf(r)) + 1
     ELSE CHOOSE i \in todo : \A j \in todo : i <= j

\* the loop of upload_chunks runs to its next await: the request of a
\* presigned URL for the chunk at r.pos, or the tasks when no chunk is left
AtPos(r, p) ==
  [r EXCEPT !.pos = p,
            !.pc = IF p <= Len(ChunksOf(r)) THEN "presign" ELSE "gather"]

\* multipart_upload.py:267-274: upload_chunks is entered for batch_idx
EnterUploadChunks(r, batch_idx) ==
  LET r1 == [r EXCEPT !.batch_idx = batch_idx, !.tasks = << >>,
                      !.aborting = FALSE, !.upload_responses = << >>,
                      !.reg = 0]
  IN AtPos(r1, NextPos(r1, 1))

\* multipart_upload.py:482-483
num_chunks(r) == Ceil(r.size, CHUNK_SIZE)

\* multipart_upload.py:550-553: after the resolver, upload_batched (its
\* first batch, if range(0, num_chunks, ...) has one) or upload_simple
EnterUpload(r) ==
  IF r.batched /\ num_chunks(r) = 0 THEN [r EXCEPT !.pc = "complete"]
  ELSE EnterUploadChunks(r, 0)

\* variant of AfterRegister: the run goes to complete_upload after its
\* first batch
AfterRegisterNoNextBatch(r) == [r EXCEPT !.pc = "complete"]

\* multipart_upload.py:491 (the next batch_idx of the range) and 555-556
AfterRegister(r) ==
  IF r.batched /\ r.batch_idx + MAX_CONCURRENT_UPLOADS < num_chunks(r)
  THEN EnterUploadChunks(r, r.batch_idx + MAX_CONCURRENT_UPLOADS)
  ELSE [r EXCEPT !.pc = "complete"]

\* variant of StartOffset: the batched mode numbers from last_part_number too
StartOffsetLastPart(r) == r.last_part_number

\* multipart_upload.py:476 (simple: last_part_number) and 505 (batched: batch_idx)
StartOffset(r) == IF r.batched THEN r.batch_idx ELSE r.last_part_number

InFlight(r) == {t \in DOMAIN r.tasks : r.tasks[t].state = "inflight"}

\* variant of AbortTaskGroup: the tasks are independent of each other, a
\* raising task leaves the others running
AbortOnlyRaiser(tasks, t) == [tasks EXCEPT ![t].state = "failed"]

\* asyncio.TaskGroup (multipart_upload.py:269): when task t raises, the
\* group cancels its other unfinished tasks
AbortTaskGroup(tasks, t) ==
  [i \in DOMAIN tasks |->
     IF i = t THEN [tasks[i] EXCEPT !.state = "failed"]
     ELSE IF tasks[i].state = "inflight" THEN [tasks[i] EXCEPT !.state = "cancelled"]
     ELSE tasks[i]]

\* main is run again (multipart_upload.py:509-548), in simple or batched mode
StartRun(c) ==
  \E batched \in BOOLEAN, max_concurrent \in MaxConcurrentArgs :
    /\ ~Active(cl[c])
    /\ cl[c].runs < MaxRuns
    /\ cl' = [cl EXCEPT ![c] =
                [NoRun(cl[c].runs + 1) EXCEPT
                   !.pc = "get_uploads", !.size = cl[c].size, !.batched = batched,
                   !.max_concurrent = max_concurrent,
                   !.prev = [pc |-> cl[c].pc,
                             upload_id |-> cl[c].upload.upload_id,
                             part_numbers |-> PartNumbersOf(cl[c].upload.upload_id)]]]
    /\ UNCHANGED <<uploads, parts, s3, resp, tx, rd>>

\* multipart_upload.py:195-202, 214-215: the query, and the first upload returned
GetUploads(c) ==
  /\ cl[c].pc = "get_uploads"
  /\ LET in_progress_uploads == get_uploads(ClientKey, {INITIATED, IN_PROGRESS})
     IN IF in_progress_uploads # {}
        THEN \E u \in in_progress_uploads :
               cl' = [cl EXCEPT ![c].found = u, ![c].pc = "get_last_part",
                                ![c].upload = [upload_id |-> u, key |-> uploads[u].key]]
        ELSE cl' = [cl EXCEPT ![c].pc = "start_upload"]
  /\ UNCHANGED <<uploads, parts, s3, resp, tx, rd>>

\* multipart_upload.py:203-213, 218: the last part of the upload found.  With
\* no part, files.py:140 returns None where the route's response_model is
\* UploadPartPublic: the server answers 500 with a body that is no JSON, the
\* client raises UnexpectedStatus, and json.loads of that body at 212 raises
\* inside the except clause: the error leaves get_existing_or_start_upload.
GetLastPart(c) ==
  /\ cl[c].pc = "get_last_part"
  /\ IF get_last_part(cl[c].found) = {}
     THEN cl' = [cl EXCEPT ![c].pc = "failed"]
     ELSE \E last_part \in get_last_part(cl[c].found) :
            cl' = [cl EXCEPT ![c] =
                     EnterUpload([cl[c] EXCEPT
                                    !.last_part_number = last_part.part_number])]
  /\ UNCHANGED <<uploads, parts, s3, resp, tx, rd>>

\* multipart_upload.py:86-97, 216-218
StartUpload(c) ==
  /\ cl[c].pc = "start_upload"
  /\ LET request == [filename |-> ClientKey,
                     content_type |-> "application/octet-stream",
                     user_id |-> MinioUser]
         r == start_upload(request)
     IN /\ uploads' = r.uploads
        /\ s3' = r.s3
        /\ cl' = [cl EXCEPT ![c] = EnterUpload([cl[c] EXCEPT !.upload = r.body])]
  /\ UNCHANGED <<parts, resp, tx, rd>>

\* multipart_upload.py:279-289: the presigned URL arrives, the transfer of
\* the chunk is started as a task of the group, the loop goes on
Presigned(c) ==
  /\ cl[c].pc = "presign"
  /\ ~cl[c].aborting
  /\ LET r == cl[c]
         part_idx == r.batch_idx + r.pos
         task == [part_idx |-> part_idx, chunk |-> ChunksOf(r)[r.pos],
                  state |-> "inflight", ETag |-> NoETag]
     IN cl' = [cl EXCEPT ![c] =
                 AtPos([r EXCEPT !.tasks = Append(@, task),
                                 !.sent = @ \cup {part_idx}],
                       NextPos(r, r.pos + 1))]
  /\ UNCHANGED <<uploads, parts, s3, resp, tx, rd>>

\* multipart_upload.py:110-115: the PUT is answered; the store keeps the part
\* and returns its ETag (only while the transfer is open), or answers with
\* an error status and no ETag
TransferRespondsWith(c, t, ok) ==
  LET r == cl[c]
      u == r.upload.upload_id
      task == r.tasks[t]
  IN /\ ok => S3Open(u)
     /\ s3' = IF ok THEN S3PutPart(u, task.part_idx, task.chunk) ELSE s3
     /\ cl' = [cl EXCEPT ![c].tasks[t] =
                 [task EXCEPT !.state = "done",
                              !.ETag = IF ok THEN ETag(task.chunk) ELSE NoETag]]
     /\ UNCHANGED <<uploads, parts, resp, tx, rd>>

TransferResponds(c) ==
  \E t \in InFlight(cl[c]), ok \in BOOLEAN : TransferRespondsWith(c, t, ok)

\* multipart_upload.py:113: client.put raises (a transport error)
TransferRaises(c) ==
  \E t \in InFlight(cl[c]) :
    /\ cl' = [cl EXCEPT ![c].tasks = AbortTaskGroup(@, t), ![c].aborting = TRUE]
    /\ UNCHANGED <<uploads, parts, s3, resp, tx, rd>>

\* variant of TaskGroupRaises: the error of the group is swallowed and the
\* run goes on to complete_upload
TaskGroupSwallows(c) ==
  /\ cl[c].pc \in {"presign", "gather"}
  /\ cl[c].aborting
  /\ cl' = [cl EXCEPT ![c].pc = "complete"]
  /\ UNCHANGED <<uploads, parts, s3, resp, tx, rd>>

\* multipart_upload.py:269: the group is left with the error of its task;
\* main (563-568) ends the run
TaskGroupRaises(c) ==
  /\ cl[c].pc \in {"presign", "gather"}
  /\ cl[c].aborting
  /\ cl' = [cl EXCEPT ![c].pc = "failed"]
  /\ UNCHANGED <<uploads, parts, s3, resp, tx, rd>>

\* multipart_upload.py:291-294: every task is awaited, in the order of creation
Gather(c) ==
  /\ cl[c].pc = "gather"
  /\ ~cl[c].aborting
  /\ \A t \in DOMAIN cl[c].tasks : cl[c].tasks[t].state = "done"
  /\ cl' = [cl EXCEPT ![c].upload_responses =
                         [t \in DOMAIN cl[c].tasks |-> [ETag |-> cl[c].tasks[t].ETag]],
                      ![c].reg = 1,
                      ![c].pc = "register"]
  /\ UNCHANGED <<uploads, parts, s3, resp, tx, rd>>

\* variant of Register: a response without ETag is passed over and the loop
\* goes on with the next response
RegisterSkipsMissingTag(c) ==
  /\ cl[c].pc = "register"
  /\ cl[c].reg <= Len(cl[c].upload_responses)
  /\ LET r == cl[c]
         index == StartOffset(r) + r.reg
         tag_from_header == r.upload_responses[r.reg].ETag
         request == [upload_id |-> r.upload.upload_id, key |-> r.upload.key,
                     part_number |-> index, etag |-> tag_from_header,
                     user_id |-> MinioUser]
         result == upload_part(request)
     IN IF tag_from_header = NoETag
        THEN /\ cl' = [cl EXCEPT ![c].reg = @ + 1]
             /\ UNCHANGED <<uploads, parts>>
        ELSE /\ uploads' = result.uploads
             /\ parts' = result.parts
             /\ cl' = [cl EXCEPT ![c].pc = IF result.status = HTTP_201_CREATED
                                           THEN "register" ELSE "failed",
                                 ![c].reg = @ + 1]
  /\ UNCHANGED <<s3, resp, tx, rd>>

\* multipart_upload.py:336-358: one turn of the loop of register_uploaded_parts
Register(c) ==
  /\ cl[c].pc = "register"
  /\ cl[c].reg <= Len(cl[c].upload_responses)
  /\ LET r == cl[c]
         index == StartOffset(r) + r.reg
         tag_from_header == r.upload_responses[r.reg].ETag
         request == [upload_id |-> r.upload.upload_id, key |-> r.upload.key,
                     part_number |-> index, etag |-> tag_from_header,
                     user_id |-> MinioUser]
         result == upload_part(request)
     IN IF tag_from_header = NoETag
        THEN /\ cl' = [cl EXCEPT ![c].pc = "failed"]
             /\ UNCHANGED <<uploads, parts>>
        ELSE /\ uploads' = result.uploads
             /\ parts' = result.parts
             /\ cl' = [cl EXCEPT ![c].pc = IF result.status = HTTP_201_CREATED
                                           THEN "register" ELSE "failed",
                                 ![c].reg = @ + 1]
  /\ UNCHANGED <<s3, resp, tx, rd>>

\* variant of Registered: upload_batched goes on before the loop of
\* register_uploaded_parts has ended
RegisteredBeforeLoopEnds(c) ==
  /\ cl[c].pc = "register"
  /\ cl' = [cl EXCEPT ![c] = AfterRegister(cl[c])]
  /\ UNCHANGED <<uploads, parts, s3, resp, tx, rd>>

\* multipart_upload.py:336 (the loop ends), 491-506 (the next batch), 555-556
Registered(c) ==
  /\ cl[c].pc = "register"
  /\ cl[c].reg > Len(cl[c].upload_responses)
  /\ cl' = [cl EXCEPT ![c] = AfterRegister(cl[c])]
  /\ UNCHANGED <<uploads, parts, s3, resp, tx, rd>>

\* multipart_upload.py:135-143, 556-568
CompleteWith(c, f) ==
  /\ cl[c].pc = "complete"
  /\ LET r == cl[c]
         request == [upload_id |-> r.upload.upload_id, key |-> r.upload.key,
                     user_id |-> MinioUser]
         result == complete_upload(request, f[1], f[2])
     IN /\ uploads' = result.uploads
        /\ s3' = result.s3
        /\ cl' = [cl EXCEPT ![c].pc = IF result.status = HTTP_201_CREATED
                                      THEN "done" ELSE "failed"]
  /\ UNCHANGED <<parts, resp, tx, rd>>

Complete(c) == \E f \in FaultCases : CompleteWith(c, f)

\* multipart_upload.py:560-562: KeyboardInterrupt; the tasks of the run are cancelled
Interrupt(c) ==
  /\ Active(cl[c])
  /\ cl' = [cl EXCEPT ![c].pc = "interrupted",
                      ![c].tasks = [t \in DOMAIN @ |->
                                      IF @[t].state = "inflight"
                                      THEN [@[t] EXCEPT !.state = "cancelled"]
                                      ELSE @[t]]]
  /\ UNCHANGED <<uploads, parts, s3, resp, tx, rd>>

(***************************************************************************)
(* The API driven directly: any caller, any request.                       *)
(***************************************************************************)
\* bytes a caller may PUT to a presigned URL: a full chunk and a short one
Contents == {<<1, 2>>, <<5>>}

\* the API-level specification follows one transfer session
DirectUploadIds == {1}

ETags == {ETag(c) : c \in Contents}

\* the (key, user_id) a request carries: the ones of the upload, a wrong key,
\* a wrong user
Credentials == {<<ClientKey, MinioUser>>, <<"other.bin", MinioUser>>,
                <<ClientKey, "user123">>}


Respond(op, r) ==
  /\ resp' = [op |-> op, status |-> r.status, calls |-> r.calls, body |-> r.body]
  /\ uploads' = r.uploads
  /\ parts' = r.parts
  /\ s3' = r.s3

StartUploadRequest ==
  \E filename \in {ClientKey}, user_id \in {MinioUser}, commit_fault \in BOOLEAN :
    LET request == [filename |-> filename,
                    content_type |-> "application/octet-stream",
                    user_id |-> user_id]
    IN /\ S3NextId \in DirectUploadIds
       /\ Respond("start_upload",
                  IF commit_fault THEN start_upload_commit_fails(request)
                  ELSE start_upload(request))
       /\ UNCHANGED <<cl, tx, rd>>

\* a PUT to the URL get_presigned_url (files.py:223-245) signs for
\* (upload_id, key, part_number): the store keeps the part while the
\* transfer is open and answers without an ETag otherwise
PutToPresignedUrl ==
  \E u \in DOMAIN s3, part_number \in 1..MaxPartNumber, content \in Contents :
    /\ s3' = IF S3Open(u) THEN S3PutPart(u, part_number, content) ELSE s3
    /\ resp' = [op |-> "put",
                status |-> IF S3Open(u) THEN HTTP_200_OK ELSE HTTP_404_NOT_FOUND,
                calls |-> << >>,
                body |-> [detail |-> IF S3Open(u) THEN "ETag" ELSE "NoSuchUpload"]]
    /\ UNCHANGED <<uploads, parts, cl, tx, rd>>

\* the upload_part requests a caller may send
\* models.py:20-25: part_number is an int, of any sign
UploadPartRequests ==
  {[upload_id |-> u, key |-> cred[1], part_number |-> part_number,
    etag |-> etag, user_id |-> cred[2]] :
     u \in DirectUploadIds \cup {2}, cred \in Credentials,
     part_number \in 0..MaxPartNumber, etag \in ETags}

UploadPart(request) ==
  /\ Len(upload_part(request).parts) <= MaxRows
  /\ Respond("upload_part", upload_part(request))
  /\ UNCHANGED <<cl, tx, rd>>

UploadPartRequest == \E request \in UploadPartRequests : UploadPart(request)

\* the complete_upload requests a caller may send
CompleteUploadRequests ==
  {[upload_id |-> u, key |-> cred[1], user_id |-> cred[2]] :
     u \in DirectUploadIds \cup {2}, cred \in Credentials}

CompleteUpload(request, f) ==
  /\ Respond("complete_upload", complete_upload(request, f[1], f[2]))
  /\ UNCHANGED <<cl, tx, rd>>

CompleteUploadRequest ==
  \E request \in CompleteUploadRequests, f \in FaultCases :
    CompleteUpload(request, f)

DeleteUpload(upload_id) ==
  /\ Respond("delete_upload", delete_upload(upload_id))
  /\ UNCHANGED <<cl, tx, rd>>

DeleteUploadRequest ==
  \E upload_id \in DirectUploadIds \cup {2} : DeleteUpload(upload_id)

(***************************************************************************)
(* upload_part as the server runs it: the handler gives way to other       *)
(* requests at each await, between its select and its two commits.         *)
(***************************************************************************)
\* no upload_part request is in the middle of its handler
NoTx == [pc |-> "idle"]

\* no reader is open
NoReader == [pc |-> "closed"]

\* files.py:267-277: the select; without a row the handler raises 404
UploadPartSelect(request) ==
  /\ tx.pc = "idle"
  /\ IF FindUpload(request.upload_id, request.key, request.user_id)
     THEN /\ tx' = [pc |-> "insert", request |-> request,
                    loaded |-> uploads[request.upload_id].status]
          /\ UNCHANGED <<uploads, parts, s3, resp, cl, rd>>
     ELSE /\ Respond("upload_part", upload_part(request))
          /\ UNCHANGED <<cl, tx, rd>>

UploadPartSelectRequest ==
  \E request \in UploadPartRequests : UploadPartSelect(request)

\* files.py:279-288: the Part row is added and committed.  The INSERT does
\* not look at the table `upload` (database.py:18-21 leaves SQLite's
\* foreign-key enforcement off).
UploadPartInsert ==
  /\ tx.pc = "insert"
  /\ Len(parts) < MaxRows
  /\ parts' = InsertPart(tx.request)
  /\ tx' = [tx EXCEPT !.pc = "status"]
  /\ UNCHANGED <<uploads, s3, resp, cl, rd>>

\* files.py:291-295: upload.status = "in-progress" and the second commit.
\* No UPDATE is sent when the row was loaded with that status; an UPDATE
\* that finds no row raises.
UploadPartStatus ==
  /\ tx.pc = "status"
  /\ LET u == tx.request.upload_id
         changed == StatusAfterPart(tx.loaded) # tx.loaded
         stale == changed /\ u \notin DOMAIN uploads
     IN /\ uploads' = IF changed /\ ~stale
                      THEN [uploads EXCEPT ![u].status = StatusAfterPart(tx.loaded)]
                      ELSE uploads
        /\ resp' = [op |-> "upload_part",
                    status |-> IF stale THEN 500 ELSE HTTP_201_CREATED,
                    calls |-> << >>,
                    body |-> IF stale THEN [detail |-> "StaleDataError"]
                             ELSE [success |-> TRUE]]
  /\ tx' = NoTx
  /\ UNCHANGED <<parts, s3, cl, rd>>

Init ==
  /\ uploads = << >>
  /\ parts = << >>
  /\ s3 = << >>
  /\ resp = [op |-> "none", status |-> HTTP_200_OK,
             calls |-> << >>, body |-> [detail |-> "none"]]
  /\ cl = [c \in Clients |-> NoRun(0)]
  /\ tx = NoTx
  /\ rd = NoReader

Next ==
  \/ StartUploadRequest
  \/ PutToPresignedUrl
  \/ UploadPartRequest
  \/ CompleteUploadRequest
  \/ DeleteUploadRequest

Spec == Init /\ [][Next]_vars

\* the API with the requests of other callers between the steps of upload_part
ConcurrentNext ==
  \/ StartUploadRequest
  \/ PutToPresignedUrl
  \/ UploadPartSelectRequest
  \/ UploadPartInsert
  \/ UploadPartStatus
  \/ CompleteUploadRequest
  \/ DeleteUploadRequest

ConcurrentSpec == Init /\ [][ConcurrentNext]_vars

(***************************************************************************)
(* The upload script run against the server, from empty tables.            *)
(***************************************************************************)
ClientInit ==
  /\ uploads = << >>
  /\ parts = << >>
  /\ s3 = << >>
  /\ resp = [op |-> "none", status |-> HTTP_200_OK,
             calls |-> << >>, body |-> [detail |-> "none"]]
  /\ \E size \in 0..MaxFileSize :
       cl = [c \in Clients |-> [NoRun(0) EXCEPT !.size = size]]
  /\ tx = NoTx
  /\ rd = NoReader

ClientNext ==
  \E c \in Clients :
    \/ StartRun(c)
    \/ GetUploads(c)
    \/ GetLastPart(c)
    \/ StartUpload(c)
    \/ Presigned(c)
    \/ TransferResponds(c)
    \/ TransferRaises(c)
    \/ TaskGroupRaises(c)
    \/ Gather(c)
    \/ Register(c)
    \/ Registered(c)
    \/ Complete(c)
    \/ Interrupt(c)

ClientSpec == ClientInit /\ [][ClientNext]_vars

(***************************************************************************)
(* One run of the script on an empty service, no collaborator failing:     *)
(* every transfer is answered with its ETag, complete_upload meets no      *)
(* fault, and the run is not interrupted.                                  *)
(***************************************************************************)
FreshNext ==
  \E c \in Clients :
    \/ cl[c].runs = 0 /\ StartRun(c)
    \/ GetUploads(c)
    \/ StartUpload(c)
    \/ Presigned(c)
    \/ \E t \in InFlight(cl[c]) : TransferRespondsWith(c, t, TRUE)
    \/ Gather(c)
    \/ Register(c)
    \/ Registered(c)
    \/ CompleteWith(c, <<"none", FALSE>>)

\* the event loop runs every coroutine that can go on, and every request to
\* a collaborator is answered
FreshSpec == ClientInit /\ [][FreshNext]_vars /\ WF_vars(FreshNext)

(***************************************************************************)
(* Two runs of the script for the same file at the same time, one run per  *)
(* client, up to the end of get_existing_or_start_upload.                  *)
(***************************************************************************)
ResolverClients == {"c1", "c2"}

ResolverInit ==
  /\ uploads = << >>
  /\ parts = << >>
  /\ s3 = << >>
  /\ resp = [op |-> "none", status |-> HTTP_200_OK,
             calls |-> << >>, body |-> [detail |-> "none"]]
  /\ \E size \in 0..MaxFileSize :
       cl = [c \in ResolverClients |-> [NoRun(0) EXCEPT !.size = size]]
  /\ tx = NoTx
  /\ rd = NoReader

\* multipart_upload.py:192-218: each request of the resolver is a step of
\* its run; the requests of the two runs interleave
ResolverNext ==
  \E c \in ResolverClients :
    \/ cl[c].runs = 0 /\ StartRun(c)
    \/ GetUploads(c)
    \/ GetLastPart(c)
    \/ StartUpload(c)
    \/ Interrupt(c)

ResolverSpec == ResolverInit /\ [][ResolverNext]_vars

(***************************************************************************)
(* ChunkedBinaryReader.read_chunks, statement by statement.                *)
(***************************************************************************)
\* multipart_upload.py:40-72: the reader is opened on a file and
\* read_chunks(offset, batch_size) is called
ReaderInit ==
  /\ uploads = << >>
  /\ parts = << >>
  /\ s3 = << >>
  /\ resp = [op |-> "none", status |-> HTTP_200_OK,
             calls |-> << >>, body |-> [detail |-> "none"]]
  /\ cl = [c \in Clients |-> NoRun(0)]
  /\ tx = NoTx
  /\ \E size \in 0..MaxFileSize, chunk_size \in 1..MaxChunkSize,
        offset \in 0..MaxOffset,
        batch_size \in {<< >>} \cup {<<b>> : b \in 0..MaxBatchSize} :
       rd = [pc |-> "seek", size |-> size, chunk_size |-> chunk_size,
             offset |-> offset, batch_size |-> batch_size,
             position |-> 0, chunks_read |-> 0, out |-> << >>]

\* multipart_upload.py:78: while batch_size is None or chunks_read < batch_size
LoopCondition(batch_size, chunks_read) ==
  IF batch_size = << >> THEN TRUE ELSE chunks_read < batch_size[1]

\* multipart_upload.py:74-76: byte_offset, seek, chunks_read = 0
ReaderSeek ==
  /\ rd.pc = "seek"
  /\ rd' = [rd EXCEPT !.position = rd.offset * rd.chunk_size,
                      !.chunks_read = 0, !.pc = "loop"]
  /\ UNCHANGED <<uploads, parts, s3, resp, cl, tx>>

\* multipart_upload.py:78-83: one turn of the loop that yields a chunk
ReaderYield ==
  /\ rd.pc = "loop"
  /\ LoopCondition(rd.batch_size, rd.chunks_read)
  /\ LET chunk == FileRead(File(rd.size), rd.position, rd.chunk_size)
     IN /\ chunk # << >>
        /\ rd' = [rd EXCEPT !.out = Append(@, chunk),
                            !.position = @ + Len(chunk),
                            !.chunks_read = @ + 1]
  /\ UNCHANGED <<uploads, parts, s3, resp, cl, tx>>

\* multipart_upload.py:78-81: the loop condition fails, or the read is empty
ReaderStop ==
  /\ rd.pc = "loop"
  /\ \/ ~LoopCondition(rd.batch_size, rd.chunks_read)
     \/ FileRead(File(rd.size), rd.position, rd.chunk_size) = << >>
  /\ rd' = [rd EXCEPT !.pc = "done"]
  /\ UNCHANGED <<uploads, parts, s3, resp, cl, tx>>

ReaderNext == ReaderSeek \/ ReaderYield \/ ReaderStop

ReaderSpec == ReaderInit /\ [][ReaderNext]_vars

(***************************************************************************)
(* Properties.                                                             *)
(***************************************************************************)
RowsOf(upload_id, part_number) ==
  {i \in DOMAIN parts : /\ parts[i].upload_id = upload_id
                        /\ parts[i].part_number = part_number}

\* C1: part registration is idempotent: whatever registrations succeeded, a
\* session holds exactly one Part record per distinct part number (the same
\* (upload_id, part_number, etag) registered twice leaves one record).
C1_OneRecordPerPartNumber ==
  \A u \in DOMAIN uploads, part_number \in 1..MaxPartNumber :
    Cardinality(RowsOf(u, part_number)) <= 1

\* a request for a part number the session holds with another tag
Conflicts(request) ==
  /\ FindUpload(request.upload_id, request.key, request.user_id)
  /\ \E p \in Range(parts) : /\ p.upload_id = request.upload_id
                             /\ p.part_number = request.part_number
                             /\ p.etag # request.etag

\* C2: registering a part number that is already registered with a different
\* etag fails, and the table of parts is as it was.
C2_ConflictRejected ==
  [][\A request \in UploadPartRequests :
       (Conflicts(request) /\ UploadPart(request))
         => (resp'.status # HTTP_201_CREATED /\ parts' = parts)]_vars

Rank(status) ==
  CASE status = INITIATED -> 0
    [] status = IN_PROGRESS -> 1
    [] status = COMPLETED -> 2

\* C3: the status of a session only moves forward, initiated -> in-progress
\* -> completed; a completed session stays completed.
C3_StatusMonotonic ==
  [][\A u \in DOMAIN uploads \cap DOMAIN uploads' :
       Rank(uploads[u].status) <= Rank(uploads'[u].status)]_vars

\* C4: a completed session's part numbers are a contiguous run 1..N.
C4_CompletedIsContiguous ==
  \A u \in DOMAIN uploads :
    uploads[u].status = COMPLETED
      => PartNumbersOf(u) = 1..Cardinality(PartNumbersOf(u))

TaskStates(r, state) == {t \in DOMAIN r.tasks : r.tasks[t].state = state}

\* C6: fail-fast.  When a transfer of an upload_chunks invocation raises, no
\* transfer of the invocation stays in flight (the others are cancelled);
\* from then on the invocation starts no transfer, none completes, and the
\* invocation ends only by failing, never by returning responses.
C6_FailFast ==
  [][\A c \in Clients :
       /\ (TaskStates(cl'[c], "failed") # {} /\ Active(cl'[c]))
            => (InFlight(cl'[c]) = {} /\ cl'[c].aborting)
       /\ (cl[c].aborting /\ Active(cl[c]))
            => /\ cl'[c].tasks = cl[c].tasks \/ cl'[c].pc = "interrupted"
               /\ cl'[c].upload_responses = cl[c].upload_responses
               /\ cl'[c].pc \in {cl[c].pc, "failed", "interrupted"}]_vars

\* an invocation that failed with one transfer raised and another cancelled
C6_Witness ==
  \E c \in Clients : /\ cl[c].pc = "failed"
                     /\ TaskStates(cl[c], "failed") # {}
                     /\ TaskStates(cl[c], "cancelled") # {}

\* C7: the upload the resolver selects as resumable is initiated or
\* in-progress, never completed.
C7_ResolverSkipsCompleted ==
  \A c \in Clients :
    cl[c].pc = "get_last_part" => uploads[cl[c].found].status # COMPLETED

\* the tag of the transfer of the part_number-th chunk of the file
TagOfChunk(size, part_number) ==
  LET chunks == read_chunks(File(size), CHUNK_SIZE, part_number - 1, <<1>>)
  IN IF chunks = << >> THEN NoETag ELSE ETag(chunks[1])

\* C8: every Part record a client run registers carries, for its part
\* number p, the tag of the transfer of the p-th chunk of the file.
C8_PartNumbersInFileOrder ==
  \A c \in Clients : \A p \in Range(PartsOf(cl[c].upload.upload_id)) :
    p.etag = TagOfChunk(cl[c].size, p.part_number)

\* the run is past the resolver
Resolved(r) == r.pc \in {"presign", "gather", "register", "complete", "done"}

\* the run before this one was interrupted with exactly the parts 1..k registered
ResumesAfter(r, k) ==
  /\ r.prev.pc = "interrupted"
  /\ r.prev.upload_id # 0
  /\ r.prev.part_numbers = 1..k

\* C9: a run after one interrupted with the parts 1..k of N registered
\* (k < N) resolves the same session with resume offset k, transfers no chunk
\* of 1..k, and has transferred exactly the chunks k+1..N when it comes to
\* complete the upload.
C9_ResumeUploadsTheRest ==
  [][\A c \in Clients : \A k \in 0..(num_chunks(cl'[c]) - 1) :
       ResumesAfter(cl'[c], k) =>
         /\ (cl[c].pc = "get_last_part"
               /\ cl'[c].pc \notin {"get_last_part", "interrupted"})
              => Resolved(cl'[c])
         /\ Resolved(cl'[c])
              => /\ cl'[c].upload.upload_id = cl'[c].prev.upload_id
                 /\ cl'[c].last_part_number = k
         /\ cl'[c].sent \subseteq (k + 1)..num_chunks(cl'[c])
         /\ cl'[c].pc \in {"complete", "done"}
              => cl'[c].sent = (k + 1)..num_chunks(cl'[c])]_vars

\* C10: the resume offset r the resolver returns is the highest contiguously
\* registered part number: every part number of 1..r has a Part record.
C10_ResumeOffsetContiguous ==
  \A c \in Clients :
    Resolved(cl[c]) =>
      \A k \in 1..cl[c].last_part_number :
        k \in PartNumbersOf(cl[c].upload.upload_id)

\* a request for a session with a registered part number that the store's
\* listing of the session does not hold
MissingUpstream(request) ==
  /\ FindUpload(request.upload_id, request.key, request.user_id)
  /\ \E p \in Range(PartsOf(request.upload_id)) :
       p.part_number \notin DOMAIN s3[request.upload_id].parts

InCalls(call, calls) == \E i \in DOMAIN calls : calls[i] = call

\* C11: complete_upload on a session with a registered part number absent
\* from the store's listing fails, does not ask the store to assemble, and
\* leaves the session's status as it was (it does not become completed).
C11_MissingPartRejected ==
  [][\A request \in CompleteUploadRequests, f \in FaultCases :
       (MissingUpstream(request) /\ CompleteUpload(request, f))
         => /\ resp'.status # HTTP_201_CREATED
            /\ ~InCalls("complete_multipart_upload", resp'.calls)
            /\ uploads' = uploads]_vars

\* a completion refused because a registered part is not in the listing
C11_Witness ==
  /\ resp.op = "complete_upload"
  /\ resp.body = [detail |-> "not found in S3"]
  /\ \E u \in DOMAIN uploads : uploads[u].status = IN_PROGRESS

\* the registered parts of a session whose size in the store's listing is
\* below the minimum part size
UndersizedParts(upload_id) ==
  {p \in Range(PartsOf(upload_id)) :
     /\ p.part_number \in DOMAIN s3[upload_id].parts
     /\ s3[upload_id].parts[p.part_number].size < min_size}

MaxPartNumberOf(upload_id) == Max(PartNumbersOf(upload_id))

\* C12: complete_upload on a session with an undersized registered part
\* that is not the part of the maximum part number fails, does not ask the
\* store to assemble and requests an abort; a completion that succeeds has
\* no undersized part but the one of the maximum part number.
C12_UndersizedRejected ==
  [][\A request \in CompleteUploadRequests, f \in FaultCases :
       (/\ FindUpload(request.upload_id, request.key, request.user_id)
        /\ CompleteUpload(request, f))
         => LET u == request.upload_id
                small == {p \in UndersizedParts(u) :
                            p.part_number # MaxPartNumberOf(u)}
            IN /\ small # {}
                  => /\ resp'.status # HTTP_201_CREATED
                     /\ ~InCalls("complete_multipart_upload", resp'.calls)
                     /\ InCalls("abort_multipart_upload", resp'.calls)
               /\ resp'.status = HTTP_201_CREATED => small = {}]_vars

\* a completion refused for an undersized part that is not the last one,
\* with the abort requested
C12_Witness ==
  /\ resp.op = "complete_upload"
  /\ resp.body = [detail |-> "too small"]
  /\ resp.calls = <<"list_parts", "abort_multipart_upload">>

\* C13: a complete_upload that fails in validation or assembly requests the
\* abort of the session's transfer, and answers with the error it would
\* answer with when the abort works: a failing abort changes nothing of it.
C13_AbortKeepsOriginalError ==
  [][\A request \in CompleteUploadRequests, f \in FaultCases :
       (/\ FindUpload(request.upload_id, request.key, request.user_id)
        /\ CompleteUpload(request, f)
        /\ resp'.status # HTTP_201_CREATED)
         => /\ InCalls("abort_multipart_upload", resp'.calls)
            /\ resp'.body = complete_upload(request, f[1], FALSE).body
            /\ resp'.body.detail \in
                 {"list_parts failed", "not found in S3", "too small",
                  "complete_multipart_upload failed", "commit failed"}]_vars

\* a validation that failed, the abort requested and failed (the transfer
\* is still open), the validation error answered
C13_Witness ==
  /\ resp.op = "complete_upload"
  /\ resp.body = [detail |-> "too small"]
  /\ InCalls("abort_multipart_upload", resp.calls)
  /\ \E u \in DOMAIN s3 : S3Open(u) /\ UndersizedParts(u) # {}

\* C14: a complete_upload that fails leaves the tables as they were: the
\* status of every session and the Part records are the same.
C14_FailedCompleteChangesNothing ==
  [][\A request \in CompleteUploadRequests, f \in FaultCases :
       (CompleteUpload(request, f) /\ resp'.status # HTTP_201_CREATED)
         => (uploads' = uploads /\ parts' = parts)]_vars

\* a completion that failed on a session in progress with parts registered
C14_Witness ==
  /\ resp.op = "complete_upload"
  /\ resp.status = 500
  /\ \E u \in DOMAIN uploads : /\ uploads[u].status = IN_PROGRESS
                               /\ PartsOf(u) # << >>

\* C15: delete_upload of a session whose transfer is open in the store
\* requests the abort of that transfer, and no open transfer of the deleted
\* session is left.
C15_DeleteAbortsTransfer ==
  [][\A upload_id \in DirectUploadIds :
       (upload_id \in DOMAIN uploads /\ DeleteUpload(upload_id))
         => /\ S3Open(upload_id) => InCalls("abort_multipart_upload", resp'.calls)
            /\ s3'[upload_id].state # "open"]_vars

\* C16: after a delete_upload that succeeds no Part record of the deleted
\* session is left, and in every state every Part record belongs to a
\* stored session.
C16_Cascade ==
  [][/\ \A p \in Range(parts') : p.upload_id \in DOMAIN uploads'
     /\ \A upload_id \in DirectUploadIds :
          (DeleteUpload(upload_id) /\ resp'.status = HTTP_200_OK)
            => \A p \in Range(parts') : p.upload_id # upload_id]_vars

RECURSIVE Concat(_)
Concat(chunks) ==
  IF chunks = << >> THEN << >> ELSE chunks[1] \o Concat(Tail(chunks))

\* C17: read_chunks on a file of S bytes with chunk size C, offset o and
\* batch size b yields, in order, the chunks o+1 .. min(o+b, ceil(S/C)) of
\* the file (all the rest when b is None); with o = 0 and b None these are
\* ceil(S/C) chunks whose concatenation is the file; every chunk has C bytes
\* but possibly the last one of the file, and none is empty.
C17_ReadChunks ==
  rd.pc = "done" =>
    LET S == rd.size
        C == rd.chunk_size
        o == rd.offset
        n == Ceil(S, C)
        last == IF rd.batch_size = << >> THEN n
                ELSE Min2(o + rd.batch_size[1], n)
    IN /\ Len(rd.out) = (IF last > o THEN last - o ELSE 0)
       /\ \A i \in 1..Len(rd.out) :
            /\ rd.out[i] = SubSeq(File(S), (o + i - 1) * C + 1, Min2((o + i) * C, S))
            /\ Len(rd.out[i]) >= 1
            /\ Len(rd.out[i]) <= C
            /\ Len(rd.out[i]) < C => o + i = n
       /\ (o = 0 /\ rd.batch_size = << >>)
            => (Len(rd.out) = n /\ Concat(rd.out) = File(S))
       /\ rd.out = read_chunks(File(S), C, o, rd.batch_size)

\* a file of 5 bytes read whole in chunks of 2: the last chunk is short
C17_Witness ==
  /\ rd.pc = "done"
  /\ rd.offset = 0
  /\ rd.batch_size = << >>
  /\ rd.out = <<<<1, 2>>, <<3, 4>>, <<5>>>>

\* the numbers of the chunks the reader reads from the file in the current
\* invocation of upload_chunks
ChunksRead(r) == {r.batch_idx + i : i \in 1..Len(ChunksOf(r))}

\* C18: a run that resumes after a partial transfer of r parts does not read
\* the chunks 1..r from the file again: the reader is seeded with the resume
\* offset, so the first chunk it reads is chunk r+1, in both modes.
C18_ResumeReadsNothingTwice ==
  \A c \in Clients :
    (cl[c].pc \in {"presign", "gather"} /\ cl[c].last_part_number > 0)
      => \A n \in ChunksRead(cl[c]) : n > cl[c].last_part_number

\* C19: when the resolver finds a resumable session and the last-part lookup
\* finds no part, it propagates no error: it returns that session with
\* last_part_number 0 and the run goes on.
C19_NoPartIsNotFatal ==
  [][\A c \in Clients :
       (/\ cl[c].pc = "get_last_part"
        /\ get_last_part(cl[c].found) = {}
        /\ GetLastPart(c))
         => /\ cl'[c].pc # "failed"
            /\ cl'[c].upload.upload_id = cl[c].found
            /\ cl'[c].last_part_number = 0]_vars

\* C20: when no session exists for the key, the resolver creates exactly one
\* new session: it has the store start a multipart transfer, stores a session
\* with the upload id the store issued, status initiated and no parts, and
\* returns it with last_part_number 0.
C20_ResolverStartsOneUpload ==
  [][\A c \in Clients :
       /\ (/\ cl[c].pc = "get_uploads"
           /\ \A u \in DOMAIN uploads : uploads[u].key # ClientKey
           /\ GetUploads(c))
            => /\ cl'[c].pc = "start_upload"
               /\ uploads' = uploads
               /\ s3' = s3
       /\ (cl[c].pc = "start_upload" /\ StartUpload(c))
            => LET new == DOMAIN uploads' \ DOMAIN uploads
               IN /\ Cardinality(new) = 1
                  /\ \A v \in DOMAIN uploads : uploads'[v] = uploads[v]
                  /\ \A u \in new :
                       /\ u \notin DOMAIN s3
                       /\ u \in DOMAIN s3'
                       /\ s3'[u].state = "open"
                       /\ DOMAIN s3' = DOMAIN s3 \cup {u}
                       /\ uploads'[u].status = INITIATED
                       /\ uploads'[u].key = ClientKey
                       /\ \A i \in 1..Len(parts') : parts'[i].upload_id # u
                       /\ cl'[c].upload.upload_id = u
                       /\ cl'[c].last_part_number = 0]_vars

\* a first run found no upload for the file and started one
C20_Witness ==
  \E c \in Clients :
    /\ cl[c].pc = "presign"
    /\ cl[c].found = 0
    /\ cl[c].last_part_number = 0
    /\ cl[c].upload.upload_id \in DOMAIN uploads
    /\ uploads[cl[c].upload.upload_id].status = INITIATED
    /\ PartNumbersOf(cl[c].upload.upload_id) = {}
    /\ cl[c].tasks = << >>

\* C21: a successful upload_part on a session in status initiated persists
\* the Part record and leaves the session in-progress; on a session already
\* in-progress it persists the record and leaves the session in-progress.
C21_RegisterAdvancesStatus ==
  [][\A request \in UploadPartRequests :
       (/\ FindUpload(request.upload_id, request.key, request.user_id)
        /\ uploads[request.upload_id].status \in {INITIATED, IN_PROGRESS}
        /\ UploadPart(request))
         => /\ resp'.status = HTTP_201_CREATED
            /\ Len(parts') = Len(parts) + 1
            /\ SubSeq(parts', 1, Len(parts)) = parts
            /\ parts'[Len(parts')].upload_id = request.upload_id
            /\ parts'[Len(parts')].part_number = request.part_number
            /\ parts'[Len(parts')].etag = request.etag
            /\ uploads'[request.upload_id].status = IN_PROGRESS]_vars

\* the first part of a session has just been registered
C21_Witness ==
  /\ resp.op = "upload_part"
  /\ resp.status = HTTP_201_CREATED
  /\ \E u \in DOMAIN uploads :
       /\ uploads[u].status = IN_PROGRESS
       /\ Len(PartsOf(u)) = 1

\* some stored session has the upload_id, key and user_id of the request
MatchesSession(request) ==
  \E u \in DOMAIN uploads :
    /\ u = request.upload_id
    /\ uploads[u].key = request.key
    /\ uploads[u].user_id = request.user_id

\* C22: upload_part with an (upload_id, key, user_id) triple that matches no
\* stored session fails with not-found and changes nothing: no Part record is
\* created and no session status changes.
C22_UnknownSessionRejected ==
  [][\A request \in UploadPartRequests :
       (~MatchesSession(request) /\ UploadPart(request))
         => /\ resp'.status = HTTP_404_NOT_FOUND
            /\ parts' = parts
            /\ uploads' = uploads
            /\ s3' = s3]_vars

\* an upload_part was answered not-found while sessions and parts are stored
C22_Witness ==
  /\ resp.op = "upload_part"
  /\ resp.status = HTTP_404_NOT_FOUND
  /\ DOMAIN uploads # {}
  /\ parts # << >>

\* C23: upload_part validates the part number: a request whose part number
\* is zero or negative is rejected and stores no Part record.
C23_PartNumberValidated ==
  [][\A request \in UploadPartRequests :
       (request.part_number <= 0 /\ UploadPart(request))
         => /\ resp'.status # HTTP_201_CREATED
            /\ parts' = parts]_vars

\* the run of r ended in register_uploaded_parts at a response without ETag
MissingTagFailure(r) ==
  /\ r.pc = "failed"
  /\ r.reg \in 1..Len(r.upload_responses)
  /\ r.upload_responses[r.reg].ETag = NoETag

\* C24: a transfer whose response carries no ETag is fatal for the run: the
\* part is not registered, the run ends with an error, and after that it
\* registers no other part, starts no other batch and does not call
\* complete_upload.
C24_MissingTagIsFatal ==
  [][\A c \in Clients :
       /\ (/\ cl[c].pc = "register"
           /\ cl[c].reg <= Len(cl[c].upload_responses)
           /\ cl[c].upload_responses[cl[c].reg].ETag = NoETag
           /\ Register(c))
            => /\ MissingTagFailure(cl'[c])
               /\ parts' = parts
               /\ uploads' = uploads
       /\ (MissingTagFailure(cl[c]) /\ cl'[c].runs = cl[c].runs)
            => /\ cl'[c] = cl[c]
               /\ parts' = parts
               /\ uploads' = uploads
               /\ s3' = s3]_vars

\* of two responses the first has no ETag: the run has failed and the part
\* of the second response, which has one, is not registered
C24_Witness ==
  \E c \in Clients :
    /\ MissingTagFailure(cl[c])
    /\ cl[c].reg = 1
    /\ Len(cl[c].upload_responses) = 2
    /\ cl[c].upload_responses[2].ETag # NoETag
    /\ parts = << >>

\* the run of c has ended with its session completed, every part number
\* 1..ceil(S/C) registered exactly once and no other
RunCompleted(c) ==
  LET u == cl[c].upload.upload_id
  IN /\ cl[c].pc = "done"
     /\ u \in DOMAIN uploads
     /\ uploads[u].status = COMPLETED
     /\ Len(PartsOf(u)) = num_chunks(cl[c])
     /\ PartNumbersOf(u) = 1..num_chunks(cl[c])

\* a session is created initiated, becomes in-progress with its first Part
\* record, and completed from in-progress; no other change of status
StatusPath ==
  [][\A u \in DOMAIN uploads' :
       /\ u \notin DOMAIN uploads
            => (uploads'[u].status = INITIATED /\ PartNumbersOf(u)' = {})
       /\ (u \in DOMAIN uploads /\ uploads'[u].status # uploads[u].status)
            => \/ /\ uploads[u].status = INITIATED
                  /\ uploads'[u].status = IN_PROGRESS
                  /\ PartNumbersOf(u) = {}
                  /\ PartNumbersOf(u)' = {1}
               \/ /\ uploads[u].status = IN_PROGRESS
                  /\ uploads'[u].status = COMPLETED]_vars

\* C25 as stated: a fresh run over a file of any size S, no collaborator
\* failing, ends with the session completed, through initiated and
\* in-progress, with exactly the parts 1..ceil(S/C) registered once each.
C25_FreshRunCompletesAnySize ==
  /\ StatusPath
  /\ \A c \in Clients : (cl[c].pc = "get_uploads") ~> RunCompleted(c)

\* C25: the same for a file of at least one byte.
C25_FreshRunCompletes ==
  /\ StatusPath
  /\ \A c \in Clients :
       (cl[c].pc = "get_uploads" /\ cl[c].size >= 1) ~> RunCompleted(c)

\* a batched run over a file of three chunks has ended completed
C25_Witness ==
  \E c \in Clients :
    /\ RunCompleted(c)
    /\ cl[c].batched
    /\ num_chunks(cl[c]) = 3

\* the sessions stored for the key of the client's file
SessionsOfKey == {u \in DOMAIN uploads : uploads[u].key = ClientKey}

\* C26: a session left in-progress by a failed completion is recoverable:
\* when it is the only session of the key, the next resolve returns that
\* session, with last_part_number its highest registered part number, and
\* creates no session.
C26_InProgressIsResumed ==
  [][\A c \in Clients :
       /\ (/\ cl[c].pc = "get_uploads"
           /\ Cardinality(SessionsOfKey) = 1
           /\ \A u \in SessionsOfKey : uploads[u].status = IN_PROGRESS
           /\ GetUploads(c))
            => /\ cl'[c].pc = "get_last_part"
               /\ cl'[c].found \in SessionsOfKey
               /\ cl'[c].upload.upload_id = cl'[c].found
               /\ uploads' = uploads
       /\ (/\ cl[c].pc = "get_last_part"
           /\ uploads[cl[c].found].status = IN_PROGRESS
           /\ GetLastPart(c))
            => /\ cl'[c].pc # "failed"
               /\ cl'[c].upload.upload_id = cl[c].found
               /\ cl'[c].last_part_number = Max(PartNumbersOf(cl[c].found))
               /\ uploads' = uploads]_vars

\* the run before failed in complete_upload, which aborted the transfer and
\* left the session in-progress with two parts; this run has resolved to that
\* session and resumes after part 2
C26_Witness ==
  \E c \in Clients :
    /\ cl[c].prev.pc = "failed"
    /\ cl[c].pc \in {"presign", "gather", "complete"}
    /\ cl[c].found \in DOMAIN uploads
    /\ SessionsOfKey = {cl[c].found}
    /\ uploads[cl[c].found].status = IN_PROGRESS
    /\ s3[cl[c].found].state = "aborted"
    /\ cl[c].upload.upload_id = cl[c].found
    /\ PartNumbersOf(cl[c].found) = {1, 2}
    /\ cl[c].last_part_number = 2

\* C27: the concurrency cap is configurable per invocation: a batched run
\* starts per batch no more transfers than the value given with
\* --max-concurrent.
C27_CapIsConfigurable ==
  \A c \in Clients :
    (cl[c].batched /\ Active(cl[c]))
      => Len(cl[c].tasks) <= cl[c].max_concurrent

\* C28: a stored Part record is immutable and is never removed on its own:
\* in every step the records stay as they are, possibly with new ones added
\* after them, or a session is deleted and exactly its records disappear.
C28_PartsImmutable ==
  [][\/ /\ Len(parts') >= Len(parts)
        /\ SubSeq(parts', 1, Len(parts)) = parts
     \/ \E u \in DOMAIN uploads \ DOMAIN uploads' :
          parts' = SelectSeq(parts, LAMBDA p : p.upload_id # u)]_vars

\* a session that had a record (it was in-progress) has been deleted, and
\* its records with it
C28_Witness ==
  /\ resp.op = "delete_upload"
  /\ resp.status = HTTP_200_OK
  /\ resp.body.deleted_upload.status = IN_PROGRESS
  /\ parts = << >>

\* the part numbers of the batch that starts at batch_idx
BatchOf(batch_idx) == (batch_idx + 1)..(batch_idx + MAX_CONCURRENT_UPLOADS)

\* C29: in batched mode no presigned URL is requested and no transfer is
\* started for the next batch before every transfer of the current batch has
\* finished and every registration of its parts has been answered: the
\* transfers of a run at any time belong to its current batch, and the run
\* moves to another batch only from the end of the registrations.
C29_BatchBarrier ==
  [][\A c \in Clients :
       /\ cl'[c].batched
            => \A t \in DOMAIN cl'[c].tasks :
                 cl'[c].tasks[t].part_idx \in BatchOf(cl'[c].batch_idx)
       /\ (/\ cl[c].batched
           /\ cl'[c].runs = cl[c].runs
           /\ cl'[c].batch_idx # cl[c].batch_idx)
            => /\ cl[c].pc = "register"
               /\ \A t \in DOMAIN cl[c].tasks : cl[c].tasks[t].state = "done"
               /\ Len(cl[c].upload_responses) = Len(cl[c].tasks)
               /\ cl[c].reg = Len(cl[c].upload_responses) + 1
               /\ \A i \in 1..Len(cl[c].upload_responses) :
                    cl[c].batch_idx + i \in PartNumbersOf(cl[c].upload.upload_id)
               /\ cl'[c].tasks = << >>]_vars

\* a batched run is in its second batch, with the two parts of the first
\* batch registered, and has started the transfer of part 3
C29_Witness ==
  \E c \in Clients :
    /\ cl[c].batched
    /\ cl[c].batch_idx = MAX_CONCURRENT_UPLOADS
    /\ Len(cl[c].tasks) = 1
    /\ cl[c].tasks[1].part_idx = MAX_CONCURRENT_UPLOADS + 1
    /\ BatchOf(0) \subseteq PartNumbersOf(cl[c].upload.upload_id)

\* C30: the list of (PartNumber, ETag) pairs complete_upload sends to the
\* store for assembly is in strictly ascending order of part number,
\* whatever the order in which the parts were registered.
C30_PayloadStrictlyAscending ==
  [][\A request \in CompleteUploadRequests, f \in FaultCases :
       (/\ CompleteUpload(request, f)
        /\ InCalls("complete_multipart_upload", resp'.calls))
         => LET plist == Payload(sorted(PartsOf(request.upload_id)))
            IN \A i \in 1..(Len(plist) - 1) :
                 plist[i].PartNumber < plist[i + 1].PartNumber]_vars

\* C31: a session's status is completed only after the store has assembled
\* the object of that session, and a successful complete_upload returns the
\* location the store assigned.
C31_CompletedOnlyAfterAssembly ==
  [][/\ \A u \in DOMAIN uploads' :
          uploads'[u].status = COMPLETED
            => (u \in DOMAIN s3' /\ s3'[u].state = "completed")
     /\ \A request \in CompleteUploadRequests, f \in FaultCases :
          (CompleteUpload(request, f) /\ resp'.status = HTTP_201_CREATED)
            => /\ s3[request.upload_id].state = "open"
               /\ s3'[request.upload_id].state = "completed"
               /\ InCalls("complete_multipart_upload", resp'.calls)
               /\ uploads'[request.upload_id].status = COMPLETED
               /\ resp'.body.location = s3[request.upload_id].key]_vars

\* a completion has succeeded
C31_Witness ==
  /\ resp.op = "complete_upload"
  /\ resp.status = HTTP_201_CREATED
  /\ \E u \in DOMAIN uploads :
       uploads[u].status = COMPLETED /\ s3[u].state = "completed"

\* C32: if a transfer raises in upload_chunks, no part of that invocation is
\* registered, no later batch is started and complete_upload is not called:
\* from the failure on the run changes no Part record and no session, and
\* only ends.
C32_FailedBatchRegistersNothing ==
  [][\A c \in Clients :
       /\ TransferRaises(c) => (cl'[c].aborting /\ parts' = parts)
       /\ cl'[c].aborting
            => (cl'[c].reg = 0 /\ cl'[c].upload_responses = << >>)
       /\ (cl[c].aborting /\ cl'[c].runs = cl[c].runs)
            => /\ parts' = parts
               /\ uploads' = uploads
               /\ cl'[c].batch_idx = cl[c].batch_idx
               /\ cl'[c].pc \in {cl[c].pc, "failed", "interrupted"}]_vars

\* a transfer of the second batch has raised and the run has failed; the
\* parts of the first batch are the ones registered
C32_Witness ==
  \E c \in Clients :
    /\ cl[c].pc = "failed"
    /\ cl[c].aborting
    /\ cl[c].batched
    /\ cl[c].batch_idx = MAX_CONCURRENT_UPLOADS
    /\ PartNumbersOf(cl[c].upload.upload_id) = BatchOf(0)

\* C33: at most one session that is initiated or in-progress exists per
\* key when sessions are created through the resolver only, also when two
\* runs for the same key resolve at the same time.
C33_OneOpenSessionPerKey ==
  Cardinality({u \in DOMAIN uploads :
                 /\ uploads[u].key = ClientKey
                 /\ uploads[u].status \in {INITIATED, IN_PROGRESS}}) <= 1

\* C34: once complete_upload has requested the abort of a session's
\* transfer in the store, the resolver never again selects that session as
\* resumable.
C34_AbortedIsNotResumed ==
  [][\A c \in Clients :
       GetUploads(c)
         => \/ cl'[c].pc = "start_upload"
            \/ s3[cl'[c].found].state # "aborted"]_vars

\* chunk i of the file of `size` bytes
FileChunk(size, i) ==
  SubSeq(File(size), (i - 1) * CHUNK_SIZE + 1, Min2(i * CHUNK_SIZE, size))

\* C35: in a fresh run with no failure, batched mode and simple mode
\* register the same sequence of (part_number, etag) pairs: in either mode
\* the records of the session are, in order of registration, the parts
\* 1, 2, .. each with the tag of its own chunk, and all ceil(S/C) of them
\* when the run is done.
C35_ModesRegisterTheSame ==
  \A c \in Clients :
    LET u == cl[c].upload.upload_id
        registered == PartsOf(u)
    IN u \in DOMAIN uploads
         => /\ Len(registered) <= num_chunks(cl[c])
            /\ \A i \in 1..Len(registered) :
                 /\ registered[i].part_number = i
                 /\ registered[i].etag = ETag(FileChunk(cl[c].size, i))
            /\ cl[c].pc = "done" => Len(registered) = num_chunks(cl[c])

\* a batched run over five bytes is done: the third record, registered by
\* the second batch, is part 3 with the tag of the last byte
C35_Witness ==
  \E c \in Clients :
    /\ cl[c].pc = "done"
    /\ cl[c].batched
    /\ cl[c].size = 2 * CHUNK_SIZE + 1
    /\ Len(parts) = 3
    /\ parts[3].part_number = 3
    /\ parts[3].etag = ETag(<<2 * CHUNK_SIZE + 1>>)

\* C36: every multipart transfer start_upload opens in the store has a
\* stored session afterwards; when persisting the session fails, no open
\* transfer is left without a session.
C36_NoOrphanTransfer ==
  [][\A u \in DOMAIN s3' \ DOMAIN s3 :
       s3'[u].state = "open" => u \in DOMAIN uploads']_vars

\* C37: no Part record is ever added to a session whose status is
\* completed: upload_part on a completed session is rejected or changes
\* nothing.
C37_CompletedTakesNoPart ==
  [][\A request \in UploadPartRequests :
       (/\ MatchesSession(request)
        /\ uploads[request.upload_id].status = COMPLETED
        /\ UploadPart(request))
         => parts' = parts]_vars

\* C38: in every state another request can observe, a session that owns
\* at least one Part record has a status other than initiated.
C38_PartsImplyProgress ==
  \A u \in DOMAIN uploads :
    PartNumbersOf(u) # {} => uploads[u].status # INITIATED

\* C39: complete_upload never asks the store to assemble an object from an
\* empty part list: completing a session with no registered part is
\* rejected before the assemble request.
C39_EmptyListNotAssembled ==
  [][\A request \in CompleteUploadRequests, f \in FaultCases :
       (/\ MatchesSession(request)
        /\ PartsOf(request.upload_id) = << >>
        /\ CompleteUpload(request, f))
         => /\ resp'.status # HTTP_201_CREATED
            /\ ~InCalls("complete_multipart_upload", resp'.calls)]_vars

\* C40: complete_upload with an (upload_id, key, user_id) triple that
\* matches no stored session fails with not-found and has no effect: it
\* makes no request to the store and changes no session and no part.
C40_UnknownSessionNotCompleted ==
  [][\A request \in CompleteUploadRequests, f \in FaultCases :
       (~MatchesSession(request) /\ CompleteUpload(request, f))
         => /\ resp'.status = HTTP_404_NOT_FOUND
            /\ resp'.calls = << >>
            /\ s3' = s3
            /\ uploads' = uploads
            /\ parts' = parts]_vars

\* a completion was answered not-found while a session with a part and an
\* open transfer is stored
C40_Witness ==
  /\ resp.op = "complete_upload"
  /\ resp.status = HTTP_404_NOT_FOUND
  /\ parts # << >>
  /\ \E u \in DOMAIN uploads : s3[u].state = "open"

====
